---- MODULE Spec2Model ----
(***************************************************************************)
(* Real-time audio/transcript pipeline of the voice bot.                   *)
(*                                                                         *)
(*   DeepgramSTT   (src/src/voice/pipeline.ts)  the Transcription Channel  *)
(*   VoiceHandler  (src/unnamed/part_002)       Utterance Assembler and    *)
(*                                              Session Controller         *)
(*   VoiceReceiver (src/src/discord/receiver.ts) the Speaker Streams       *)
(*                                                                         *)
(* Everything runs on one JavaScript event loop: a handler runs to its     *)
(* first await without interruption, so each action below is one handler   *)
(* (or one continuation after an await) with every call it makes.          *)
(***************************************************************************)
EXTENDS Naturals, Sequences, FiniteSets, Bags

VARIABLES
  \* ---- DeepgramSTT ----
  stt,            \* the scalar fields of the DeepgramSTT object, and what the
                  \* runtime holds for it: reconnectTimers (pending reconnect
                  \* timers), liveIntervals (running keep-alive intervals),
                  \* delays (the delays of the reconnect timers scheduled since
                  \* the counter was last 0), unsettled (a connect() promise
                  \* whose socket closed without resolve or reject),
                  \* subscribed (onTranscription registered a callback)
  ws,             \* this.ws: NoSocket for null, else the socket it refers to
  stale,          \* bag of the sockets this.ws no longer refers to that are not
                  \* CLOSED yet: their listeners still run against this object
  \* ---- observers of the channel (history, not program state) ----
  teardown,       \* disconnect() was called and connect() not called since by the app
  failedRun,      \* failed reconnect attempts since the last open / explicit connect()
  audioCalls,     \* number of sendAudio calls made so far (chunk k is the k-th call)
  readyCalls,     \* the calls made while isReady() was true
  wire,           \* the chunks handed to ws.send
  \* ---- VoiceHandler ----
  isProcessing,     \* the processing flag
  transcriptBuffer, \* the Transcript Buffer, a string as a sequence of characters
  silenceTimer,     \* this.silenceTimer: "null", or a handle whose timer is
                    \* "pending", or one whose timer fired or was cleared ("spent")
  orphanTimers,     \* pending finalization timers no handle refers to any more
  cycles,           \* the reply cycles between the drain and the finally block
  recv,             \* this.receiver: whether it exists, the keys of its
                    \* activeStreams map, the keys whose stream has ended, per
                    \* speaker the live stream chains the map no longer refers
                    \* to, and whether an unhandled stream error ended the process
  speaks,           \* explicit speak(text) calls awaiting synthesizeSpeech
  played,           \* audio resources handed to this.player.play so far
  context,          \* the pipeline's conversation-context log: <<role, cycle ordinal>> entries
  forwarded,        \* the chunks the audio callback handed to pipeline.processAudio,
                    \* in call order, each as <<speaker, number in the speaker's stream>>
  \* ---- observer (history, not program state) ----
  last              \* the step of interest that ran last, with its inputs and outcome

chanVars == <<stt, ws, stale, teardown, failedRun, audioCalls, readyCalls, wire>>

outVars == <<speaks, played, context, forwarded>>

handlerVars == <<isProcessing, transcriptBuffer, silenceTimer, orphanTimers, cycles, recv,
                 speaks, played, context, forwarded, last>>

vars == <<stt, ws, stale, teardown, failedRun, audioCalls, readyCalls, wire,
          isProcessing, transcriptBuffer, silenceTimer, orphanTimers, cycles, recv,
          speaks, played, context, forwarded, last>>

----------------------------------------------------------------------------
(* Bounds of the model *)

\* replaced or disconnected sockets that are still alive at the same time
MaxStale == 1

\* reconnect timers pending at the same time
MaxTimers == 3

\* keep-alive intervals running at the same time
MaxIntervals == 2

\* sendAudio calls observed
MaxChunks == 2

\* characters the Transcript Buffer may hold
MaxBufferLen == 110

\* live stream chains of one speaker that activeStreams does not refer to
MaxLeaked == 1

\* length of the longest transcript of a round trip
MaxUtterance == 20

\* explicit speak() calls awaiting synthesis at the same time
MaxSpeaks == 1

\* audio resources submitted to the player that the model counts
MaxPlayed == 2

\* entries the conversation-context log keeps (maxContextLength)
MaxContext == 6

\* cycle ordinals that label the entries of the log; they wrap around
MaxCycles == 4

----------------------------------------------------------------------------
(* Program constants *)

maxReconnectAttempts == 5

\* entries of the context that generateResponse includes in a request
ContextWindow == 5

\* the system message of every request
SystemPrompt == "system-prompt"

reconnectDelay == 1000

\* the buffer length above which an interim fragment arms the timer
FinalizeLength == 100

----------------------------------------------------------------------------
(* DeepgramSTT *)

RECURSIVE Pow2(_)
Pow2(n) == IF n = 0 THEN 1 ELSE 2 * Pow2(n - 1)

NoSocket == [state |-> "null"]

\* new WebSocket(url, ...) inside connect(): readyState CONNECTING, the promise
\* of this connect() call pending. origin is who awaits that promise: "app" (an
\* explicit connect()) or "timer" (the callback handleReconnect scheduled).
NewSocket(origin) ==
  [state |-> "CONNECTING", origin |-> origin, opened |-> FALSE, listening |-> FALSE]

\* a socket that still emits events
Alive(sock) == sock.state \in {"CONNECTING", "OPEN", "CLOSING"}

\* the sockets whose listeners can still run: <<"ws", this.ws>> and
\* <<"stale", s>> for every replaced socket s
LiveSockets ==
  {<<"ws", ws>> : x \in (IF Alive(ws) THEN {1} ELSE {})}
    \cup {<<"stale", s>> : s \in BagToSet(stale)}

\* socket k of LiveSockets becomes sock2
SetSocket(k, sock2) ==
  IF k[1] = "ws"
    THEN /\ ws' = sock2
         /\ UNCHANGED stale
    ELSE /\ stale' = IF Alive(sock2)
                       THEN (stale (-) SetToBag({k[2]})) (+) SetToBag({sock2})
                       ELSE stale (-) SetToBag({k[2]})
         /\ UNCHANGED ws

\* startKeepAlive(): a new interval is created and the handle overwritten; an
\* interval the handle referred to before keeps running.
StartKeepAlive(s) ==
  [s EXCEPT !.keepAliveInterval = TRUE, !.liveIntervals = @ + 1]

\* stopKeepAlive(): clears the interval the handle refers to, if any.
StopKeepAlive(s) ==
  IF s.keepAliveInterval
    THEN [s EXCEPT !.keepAliveInterval = FALSE, !.liveIntervals = @ - 1]
    ELSE s

\* a handleReconnect() that waits reconnectDelay before every attempt
HandleReconnectNoBackoff(s) ==
  IF s.reconnectAttempts >= maxReconnectAttempts
    THEN s
    ELSE [s EXCEPT !.reconnectAttempts = @ + 1,
                   !.delays = Append(@, reconnectDelay),
                   !.reconnectTimers = @ + 1]

\* handleReconnect(): at the ceiling nothing; otherwise count the attempt and
\* schedule connect() after reconnectDelay * 2^(attempts-1) ms.
HandleReconnect(s) ==
  IF s.reconnectAttempts >= maxReconnectAttempts
    THEN s
    ELSE LET attempts == s.reconnectAttempts + 1
             delay    == reconnectDelay * Pow2(attempts - 1)
         IN [s EXCEPT !.reconnectAttempts = attempts,
                      !.delays = Append(@, delay),
                      !.reconnectTimers = @ + 1]

\* the 'open' listener of a socket (the delays observed start afresh with the
\* counter)
OnOpen(s) ==
  StartKeepAlive([s EXCEPT !.isConnected = TRUE,
                           !.connectionState = "connected",
                           !.reconnectAttempts = 0,
                           !.delays = <<>>])

\* the 'close' listener of a socket
OnClose(s) ==
  HandleReconnect(StopKeepAlive([s EXCEPT !.isConnected = FALSE]))

\* the 'error' and 'close' listeners of a socket that never opened, and the
\* catch of the timer callback when the error listener rejected its promise.
\* The error listener rejects only if (!this.isConnected): otherwise nothing
\* settles the promise of this connect() call any more.
OnFail(s, origin) ==
  IF s.isConnected
    THEN [OnClose(s) EXCEPT !.unsettled = TRUE]
    ELSE IF origin = "timer"
           THEN HandleReconnect(OnClose(s))
           ELSE OnClose(s)

\* isReady(): connected flag, a socket, and that socket OPEN
IsReady ==
  /\ stt.isConnected
  /\ ws # NoSocket
  /\ ws.state = "OPEN"

\* connect(): state 'connecting', a new socket replaces this.ws (the replaced
\* socket is neither closed nor are its listeners removed).
ConnectCall(s, origin) ==
  /\ Alive(ws) => BagCardinality(stale) < MaxStale
  /\ stt' = [s EXCEPT !.connectionState = "connecting"]
  /\ stale' = IF Alive(ws) THEN stale (+) SetToBag({ws}) ELSE stale
  /\ ws' = NewSocket(origin)

\* The application calls connect(): once on a new instance (attach), or again
\* by hand when this.ws is no live socket.
Connect ==
  /\ ~Alive(ws)
  /\ ConnectCall(stt, "app")
  /\ teardown' = FALSE
  /\ failedRun' = 0
  /\ UNCHANGED <<audioCalls, readyCalls, wire>>
  /\ UNCHANGED handlerVars

\* The timer set by handleReconnect fires: await this.connect().
ReconnectTimerFires ==
  /\ stt.reconnectTimers > 0
  /\ ConnectCall([stt EXCEPT !.reconnectTimers = @ - 1], "timer")
  /\ UNCHANGED <<teardown, failedRun, audioCalls, readyCalls, wire>>
  /\ UNCHANGED handlerVars

\* Socket k finishes its handshake: 'open'. The promise resolves; the timer
\* callback that awaited it only logs.
SocketOpen(k) ==
  /\ k[2].state = "CONNECTING"
  /\ stt.liveIntervals < MaxIntervals
  /\ stt' = OnOpen(stt)
  /\ SetSocket(k, [k[2] EXCEPT !.state = "OPEN", !.opened = TRUE])
  /\ failedRun' = 0
  /\ UNCHANGED <<teardown, audioCalls, readyCalls, wire>>
  /\ UNCHANGED handlerVars

\* The handshake of socket k fails: 'error' then 'close'. The error listener
\* rejects the promise unless isConnected; the close listener runs
\* handleReconnect; the catch of the timer callback, when its promise was
\* rejected, runs handleReconnect once more.
SocketFail(k) ==
  /\ k[2].state = "CONNECTING"
  /\ stt' = OnFail(stt, k[2].origin)
  /\ stt'.reconnectTimers <= MaxTimers
  /\ SetSocket(k, [k[2] EXCEPT !.state = "CLOSED"])
  /\ failedRun' = IF k[2].origin = "timer" /\ failedRun < maxReconnectAttempts
                    THEN failedRun + 1
                    ELSE failedRun
  /\ UNCHANGED <<teardown, audioCalls, readyCalls, wire>>
  /\ UNCHANGED handlerVars

\* Socket k, which had opened, closes (the remote side, the network, or the end
\* of a close() handshake): 'close'.
SocketClose(k) ==
  /\ \/ k[2].state = "OPEN"
     \/ k[2].state = "CLOSING" /\ k[2].opened
  /\ stt' = OnClose(stt)
  /\ stt'.reconnectTimers <= MaxTimers
  /\ SetSocket(k, [k[2] EXCEPT !.state = "CLOSED"])
  /\ UNCHANGED <<teardown, failedRun, audioCalls, readyCalls, wire>>
  /\ UNCHANGED handlerVars

\* disconnect(): stopKeepAlive; ws.close(); this.ws is forgotten and the flag
\* cleared. close() on an OPEN socket starts the closing handshake (CLOSING,
\* its 'close' comes later). close() on a CONNECTING socket aborts the
\* handshake: its 'error' and 'close' are emitted on the next tick, before any
\* other event, so they are part of this step.
DisconnectCall ==
  LET s == [StopKeepAlive(stt) EXCEPT !.isConnected = FALSE]
  IN /\ ws.state = "OPEN" => BagCardinality(stale) < MaxStale
     /\ stt' = IF ws.state = "CONNECTING" THEN OnFail(s, ws.origin) ELSE s
     /\ stt'.reconnectTimers <= MaxTimers
     /\ stale' = IF ws.state = "OPEN"
                   THEN stale (+) SetToBag({[ws EXCEPT !.state = "CLOSING"]})
                   ELSE stale
     /\ ws' = NoSocket

\* The application calls disconnect().
Disconnect ==
  /\ DisconnectCall
  /\ teardown' = TRUE
  /\ UNCHANGED <<failedRun, audioCalls, readyCalls, wire>>
  /\ UNCHANGED handlerVars

\* onTranscription(callback): the 'message' listener that calls the callback
\* is registered on the socket this.ws refers to now (with no socket the call
\* only logs an error). attach() calls it once, when its connect() has
\* resolved, that is on an open socket.
OnTranscription ==
  /\ ws # NoSocket
  /\ ws.state = "OPEN"
  /\ ~stt.subscribed
  /\ ws' = [ws EXCEPT !.listening = TRUE]
  /\ stt' = [stt EXCEPT !.subscribed = TRUE]
  /\ last' = [op |-> "onTranscription"]
  /\ UNCHANGED <<stale, teardown, failedRun, audioCalls, readyCalls, wire>>
  /\ UNCHANGED <<isProcessing, transcriptBuffer, silenceTimer, orphanTimers, cycles, recv>>
  /\ UNCHANGED outVars

\* A Results message with a non-empty transcript arrives on socket k, which
\* is open or still closing: the callback runs if a 'message' listener is
\* registered on this socket.
SocketMessage(k) ==
  /\ k[2].opened
  /\ last' = [op |-> "message", on |-> k[1], origin |-> k[2].origin,
              subscribed |-> stt.subscribed, delivered |-> k[2].listening]
  /\ UNCHANGED chanVars
  /\ UNCHANGED <<isProcessing, transcriptBuffer, silenceTimer, orphanTimers, cycles, recv>>
  /\ UNCHANGED outVars

\* sendAudio(chunk) without its readiness check
SendAudioNoCheck ==
  /\ audioCalls < MaxChunks
  /\ audioCalls' = audioCalls + 1
  /\ readyCalls' = IF IsReady THEN readyCalls \cup {audioCalls + 1} ELSE readyCalls
  /\ wire' = wire \cup {audioCalls + 1}
  /\ UNCHANGED <<stt, ws, stale, teardown, failedRun>>
  /\ UNCHANGED handlerVars

\* sendAudio(chunk), chunk being the (audioCalls+1)-th chunk: dropped unless
\* isConnected, this.ws and readyState OPEN; otherwise ws.send(chunk).
SendAudio ==
  /\ audioCalls < MaxChunks
  /\ audioCalls' = audioCalls + 1
  /\ readyCalls' = IF IsReady THEN readyCalls \cup {audioCalls + 1} ELSE readyCalls
  /\ wire' = IF ~stt.isConnected \/ ws = NoSocket \/ ws.state # "OPEN"
               THEN wire
               ELSE wire \cup {audioCalls + 1}
  /\ UNCHANGED <<stt, ws, stale, teardown, failedRun>>
  /\ UNCHANGED handlerVars

\* sendAudio(chunk) called from the pipeline's intake: the same call, the
\* handler's state being written by the caller
SendAudioFromIntake ==
  /\ audioCalls < MaxChunks
  /\ audioCalls' = audioCalls + 1
  /\ readyCalls' = IF IsReady THEN readyCalls \cup {audioCalls + 1} ELSE readyCalls
  /\ wire' = IF ~stt.isConnected \/ ws = NoSocket \/ ws.state # "OPEN"
               THEN wire
               ELSE wire \cup {audioCalls + 1}
  /\ UNCHANGED <<stt, ws, stale, teardown, failedRun>>

\* a keep-alive tick that sends on any socket the instance holds
KeepAliveSendsAlways(sock) == sock # NoSocket

\* the condition of the keep-alive callback:
\* this.ws && this.ws.readyState === WebSocket.OPEN
KeepAliveSends(sock) == sock # NoSocket /\ sock.state = "OPEN"

\* A keep-alive interval ticks (every 8000 ms): the KeepAlive message is sent
\* on this.ws if the condition holds.
KeepAliveTick ==
  /\ stt.liveIntervals > 0
  /\ last' = [op |-> "keepAlive", sent |-> KeepAliveSends(ws), state |-> ws.state]
  /\ UNCHANGED chanVars
  /\ UNCHANGED <<isProcessing, transcriptBuffer, silenceTimer, orphanTimers, cycles, recv>>
  /\ UNCHANGED outVars

----------------------------------------------------------------------------
(* VoiceHandler: the Utterance Assembler and the reply cycle *)

\* Strings are sequences of one-character strings.
Space == " "

Rep(ch, n) == [i \in 1..n |-> ch]

\* The transcript events the channel can deliver: an empty transcript, a
\* whitespace-only one, and two fragments of 33 and 49 characters (a pair of
\* the longer ones fills the buffer to exactly FinalizeLength).
Transcripts == {<<>>, Rep(Space, 2), Rep("a", 33), Rep("b", 49)}

RECURSIVE TrimStart(_)
TrimStart(str) ==
  IF str # <<>> /\ Head(str) = Space THEN TrimStart(Tail(str)) ELSE str

RECURSIVE TrimEnd(_)
TrimEnd(str) ==
  IF str # <<>> /\ str[Len(str)] = Space
    THEN TrimEnd(SubSeq(str, 1, Len(str) - 1))
    ELSE str

\* a trim that removes nothing
TrimNone(str) == str

\* String.prototype.trim()
Trim(str) == TrimEnd(TrimStart(str))

\* a clearTimeout that cancels nothing
ClearTimeoutNoop(handle) == handle

\* clearTimeout(handle): a pending timer is cancelled, a spent one is left
\* alone; the handle value itself stays non-null
ClearTimeout(handle) == IF handle = "pending" THEN "spent" ELSE handle

\* the finalization timers that will still fire
PendingTimers == orphanTimers + (IF silenceTimer = "pending" THEN 1 ELSE 0)

\* "Reset silence timer": if (this.silenceTimer) clearTimeout(this.silenceTimer)
ResetSkipped(handle) == handle

ResetSilenceTimer(handle) ==
  IF handle # "null" THEN ClearTimeout(handle) ELSE handle

\* "If final transcript or enough buffered": isFinal || buffer.length > 100
ArmAtThreshold(isFinal, buffer) == isFinal \/ Len(buffer) >= FinalizeLength

ArmCondition(isFinal, buffer) == isFinal \/ Len(buffer) > FinalizeLength

\* a buffer that is appended to without a separator
AppendFragmentNoSpace(buffer, transcript) == buffer \o transcript

\* "Buffer transcripts": this.transcriptBuffer += ' ' + transcript
AppendFragment(buffer, transcript) == buffer \o <<Space>> \o transcript

\* handleTranscription(transcript, isFinal)
HandleTranscription(transcript, isFinal) ==
  IF transcript = <<>> \/ Trim(transcript) = <<>>
    THEN /\ last' = [op |-> "handleTranscription", final |-> isFinal, text |-> transcript,
                     ignored |-> TRUE, hadTimer |-> PendingTimers > 0]
         /\ UNCHANGED <<isProcessing, transcriptBuffer, silenceTimer, orphanTimers, cycles>>
    ELSE LET buffer == AppendFragment(transcriptBuffer, transcript)
             reset  == ResetSilenceTimer(silenceTimer)
         IN /\ Len(buffer) <= MaxBufferLen
            /\ transcriptBuffer' = buffer
            /\ IF ArmCondition(isFinal, buffer)
                 THEN \* this.silenceTimer = setTimeout(..., 1000): a timer the
                      \* handle still referred to stays pending without a handle
                      /\ silenceTimer' = "pending"
                      /\ orphanTimers' = orphanTimers + (IF reset = "pending" THEN 1 ELSE 0)
                 ELSE /\ silenceTimer' = reset
                      /\ UNCHANGED orphanTimers
            /\ last' = [op |-> "handleTranscription", final |-> isFinal, text |-> transcript,
                        ignored |-> FALSE, hadTimer |-> PendingTimers > 0]
            /\ UNCHANGED <<isProcessing, cycles>>

\* one entry of the conversation-context log: the role it was recorded with
\* and the ordinal of the reply cycle that recorded it
Entry(role, k) == <<role, k>>

\* the ordinal of the next reply cycle to be recorded
NextOrdinal(log) == IF log = <<>> THEN 1 ELSE (log[Len(log)][2] % MaxCycles) + 1

\* Array.prototype.slice(-n): the last n entries, in order (all of them when
\* the sequence has fewer)
KeepLast(seq, n) == IF Len(seq) <= n THEN seq ELSE SubSeq(seq, Len(seq) - n + 1, Len(seq))

\* the context entries generateResponse includes: context.slice(0, 5)
ContextSliceOldest(log) ==
  IF Len(log) <= ContextWindow THEN log ELSE SubSeq(log, 1, ContextWindow)

\* the context entries generateResponse includes: context.slice(-5)
ContextSlice(log) == KeepLast(log, ContextWindow)

\* the role of the i-th included entry (i counts from 0): i % 2 === 0 ? 'user' : 'assistant'
RoleAt(i) == IF i % 2 = 0 THEN "user" ELSE "assistant"

\* OpenRouterClient.generateResponse(userInput, context): the messages handed
\* to chat(): the system prompt, the included context entries with their
\* roles by position, then the user input.
BuildMessages(userInput, log) ==
  <<[role |-> "system", content |-> SystemPrompt]>>
    \o [i \in 1..Len(ContextSlice(log)) |->
          [role |-> RoleAt(i - 1), content |-> ContextSlice(log)[i]]]
    \o <<[role |-> "user", content |-> userInput]>>

\* pipeline.generateResponse(input) hands the input and the conversation-context
\* log to the reply generator.
PipelineGenerate(input, log) == BuildMessages(input, log)

\* processTranscript() that forwards the buffer whatever it holds
ProcessTranscriptNoBlankCheck ==
  IF isProcessing
    THEN /\ last' = [op |-> "processTranscript", outcome |-> "busy"]
         /\ UNCHANGED <<isProcessing, transcriptBuffer, cycles>>
    ELSE /\ isProcessing' = TRUE
         /\ cycles' = Append(cycles, [phase |-> "generate", input |-> Trim(transcriptBuffer)])
         /\ transcriptBuffer' = <<>>
         /\ last' = [op |-> "processTranscript", outcome |-> "started",
                     sent |-> PipelineGenerate(Trim(transcriptBuffer), context)]

\* processTranscript() that does not look at the processing flag
ProcessTranscriptUnguarded ==
  IF Trim(transcriptBuffer) = <<>>
    THEN /\ last' = [op |-> "processTranscript", outcome |-> "blank"]
         /\ UNCHANGED <<isProcessing, transcriptBuffer, cycles>>
    ELSE /\ isProcessing' = TRUE
         /\ cycles' = Append(cycles, [phase |-> "generate", input |-> Trim(transcriptBuffer)])
         /\ transcriptBuffer' = <<>>
         /\ last' = [op |-> "processTranscript", outcome |-> "started",
                     sent |-> PipelineGenerate(Trim(transcriptBuffer), context)]

\* processTranscript() that takes the buffer without clearing it
ProcessTranscriptKeepsBuffer ==
  IF isProcessing \/ Trim(transcriptBuffer) = <<>>
    THEN /\ last' = [op |-> "processTranscript",
                     outcome |-> IF isProcessing THEN "busy" ELSE "blank"]
         /\ UNCHANGED <<isProcessing, transcriptBuffer, cycles>>
    ELSE /\ isProcessing' = TRUE
         /\ cycles' = Append(cycles, [phase |-> "generate", input |-> Trim(transcriptBuffer)])
         /\ UNCHANGED transcriptBuffer
         /\ last' = [op |-> "processTranscript", outcome |-> "started",
                     sent |-> PipelineGenerate(Trim(transcriptBuffer), context)]

\* processTranscript() up to its first await: return when busy or when the
\* buffer is blank; otherwise set the flag, take and clear the buffer and call
\* generateResponse(input).
ProcessTranscript ==
  IF isProcessing \/ Trim(transcriptBuffer) = <<>>
    THEN /\ last' = [op |-> "processTranscript",
                     outcome |-> IF isProcessing THEN "busy" ELSE "blank"]
         /\ UNCHANGED <<isProcessing, transcriptBuffer, cycles>>
    ELSE /\ isProcessing' = TRUE
         /\ cycles' = Append(cycles, [phase |-> "generate", input |-> Trim(transcriptBuffer)])
         /\ transcriptBuffer' = <<>>
         /\ last' = [op |-> "processTranscript", outcome |-> "started",
                     sent |-> PipelineGenerate(Trim(transcriptBuffer), context)]

\* the timers that can fire: the one this.silenceTimer refers to, and any
\* pending timer left without a handle
FiringTimers ==
  (IF silenceTimer = "pending" THEN {"handle"} ELSE {})
    \cup (IF orphanTimers > 0 THEN {"orphan"} ELSE {})

\* A finalization timer fires after its 1000 ms: the callback awaits
\* processTranscript(); the handle is not cleared.
SilenceTimerFires ==
  /\ \E t \in FiringTimers :
       /\ silenceTimer' = IF t = "handle" THEN "spent" ELSE silenceTimer
       /\ orphanTimers' = IF t = "orphan" THEN orphanTimers - 1 ELSE orphanTimers
  /\ ProcessTranscript
  /\ UNCHANGED recv
  /\ UNCHANGED outVars
  /\ UNCHANGED chanVars

RemoveAt(seq, c) == SubSeq(seq, 1, c - 1) \o SubSeq(seq, c + 1, Len(seq))

\* pipeline.generateResponse(input) records the utterance and the reply in the
\* conversation-context log, which keeps its most recent entries.
PipelineRecord(log) ==
  KeepLast(log \o <<Entry("user", NextOrdinal(log)), Entry("assistant", NextOrdinal(log))>>,
           MaxContext)

\* pipeline.clearContext(): the conversation-context log is emptied.
PipelineClearContext(log) == <<>>

\* generateResponse of cycle c returns: speak(response) is called and awaits
\* synthesizeSpeech.
GenerateReturns(c) ==
  /\ cycles[c].phase = "generate"
  /\ cycles' = [cycles EXCEPT ![c].phase = "speak"]
  /\ context' = PipelineRecord(context)
  /\ last' = [op |-> "generateReturned"]
  /\ UNCHANGED <<isProcessing, transcriptBuffer, silenceTimer, orphanTimers>>
  /\ UNCHANGED <<recv, speaks, played, forwarded>>
  /\ UNCHANGED chanVars

\* the catch block without a finally block after it
GenerateThrowsNoFinally(c) ==
  /\ cycles[c].phase = "generate"
  /\ cycles' = RemoveAt(cycles, c)
  /\ last' = [op |-> "generateThrew"]
  /\ UNCHANGED <<isProcessing, transcriptBuffer, silenceTimer, orphanTimers>>
  /\ UNCHANGED recv
  /\ UNCHANGED outVars
  /\ UNCHANGED chanVars

\* generateResponse of cycle c throws: catch (log), finally isProcessing = false.
GenerateThrows(c) ==
  /\ cycles[c].phase = "generate"
  /\ cycles' = RemoveAt(cycles, c)
  /\ isProcessing' = FALSE
  /\ last' = [op |-> "generateThrew"]
  /\ UNCHANGED <<transcriptBuffer, silenceTimer, orphanTimers>>
  /\ UNCHANGED recv
  /\ UNCHANGED outVars
  /\ UNCHANGED chanVars

\* How the body of speak(text) can end once synthesizeSpeech settles: with
\* audio that is resampled, encoded and played ("audio"); with no audio, where
\* speak returns after a warning ("empty"); or with an exception, of
\* synthesizeSpeech or of building the playback stream, that the catch block
\* logs ("error").
SpeakOutcomes == {"audio", "empty", "error"}

\* a speak() that plays whatever synthesizeSpeech gave it
SubmittedUnchecked(outcome) == IF outcome = "error" THEN 0 ELSE 1

\* the resources speak() hands to this.player.play(resource)
Submitted(outcome) == IF outcome = "audio" THEN 1 ELSE 0

\* speak(response) of cycle c settles; then finally isProcessing = false.
SpeakSettles(c) ==
  /\ cycles[c].phase = "speak"
  /\ \E outcome \in SpeakOutcomes :
       /\ played + Submitted(outcome) <= MaxPlayed
       /\ played' = played + Submitted(outcome)
       /\ last' = [op |-> "spoke", outcome |-> outcome, cycle |-> TRUE]
  /\ cycles' = RemoveAt(cycles, c)
  /\ isProcessing' = FALSE
  /\ UNCHANGED <<transcriptBuffer, silenceTimer, orphanTimers>>
  /\ UNCHANGED <<recv, speaks, context, forwarded>>
  /\ UNCHANGED chanVars

\* a speak(text) that waits for the reply cycle in flight
SpeakWhenIdle ==
  /\ ~isProcessing
  /\ speaks < MaxSpeaks
  /\ speaks' = speaks + 1
  /\ last' = [op |-> "speak", busy |-> isProcessing]
  /\ UNCHANGED <<isProcessing, transcriptBuffer, silenceTimer, orphanTimers, cycles>>
  /\ UNCHANGED <<recv, played, context, forwarded>>
  /\ UNCHANGED chanVars

\* speak(text) called from the command surface (!say): up to its first await,
\* the call of synthesizeSpeech.
Speak ==
  /\ speaks < MaxSpeaks
  /\ speaks' = speaks + 1
  /\ last' = [op |-> "speak", busy |-> isProcessing]
  /\ UNCHANGED <<isProcessing, transcriptBuffer, silenceTimer, orphanTimers, cycles>>
  /\ UNCHANGED <<recv, played, context, forwarded>>
  /\ UNCHANGED chanVars

\* the synthesizeSpeech of an explicit speak(text) settles, and speak returns.
SpeakReturns ==
  /\ speaks > 0
  /\ speaks' = speaks - 1
  /\ \E outcome \in SpeakOutcomes :
       /\ played + Submitted(outcome) <= MaxPlayed
       /\ played' = played + Submitted(outcome)
       /\ last' = [op |-> "spoke", outcome |-> outcome, cycle |-> FALSE]
  /\ UNCHANGED <<isProcessing, transcriptBuffer, silenceTimer, orphanTimers, cycles>>
  /\ UNCHANGED <<recv, context, forwarded>>
  /\ UNCHANGED chanVars

\* a clearContext() that leaves the buffer alone
ClearContextKeepsBuffer ==
  /\ context' = PipelineClearContext(context)
  /\ last' = [op |-> "clearContext", dropped |-> <<>>, entries |-> context]
  /\ UNCHANGED <<isProcessing, transcriptBuffer, silenceTimer, orphanTimers, cycles>>
  /\ UNCHANGED <<recv, speaks, played, forwarded>>
  /\ UNCHANGED chanVars

\* clearContext(): pipeline.clearContext(), then the buffer is reset.
ClearContext ==
  /\ context' = PipelineClearContext(context)
  /\ transcriptBuffer' = <<>>
  /\ last' = [op |-> "clearContext", dropped |-> transcriptBuffer, entries |-> context]
  /\ UNCHANGED <<isProcessing, silenceTimer, orphanTimers, cycles>>
  /\ UNCHANGED <<recv, speaks, played, forwarded>>
  /\ UNCHANGED chanVars

\* pipeline.disconnect(): the pipeline facade disconnects its channel.
PipelineDisconnect == DisconnectCall

\* pipeline.connect(): the pipeline facade connects its channel.
PipelineConnect == ConnectCall(stt, "app")

\* The speakers of the voice channel.
Users == {"u1", "u2"}

\* the speakers whose stream chain in the map is live
LiveStreams == recv.activeStreams \ recv.ended

\* the stream chains of speaker u that still call the audio callback
LiveChains(u) == (IF u \in LiveStreams THEN 1 ELSE 0) + recv.leaked[u]

\* stopAll(): every stream in the map is destroyed and the map cleared.
StopAll(r) == [r EXCEPT !.activeStreams = {}, !.ended = {}]

\* getActiveUsers(): the keys of the activeStreams map
GetActiveUsers == recv.activeStreams

\* receiver.stopReceivingUser(u): the stream stored under u, if any, is
\* destroyed and its key deleted. A chain left by a repeated
\* startReceivingUser is not in the map and is not touched.
StopReceivingUser(u) ==
  /\ recv.exists
  /\ ~recv.crashed
  /\ recv' = IF u \in recv.activeStreams
               THEN [recv EXCEPT !.activeStreams = @ \ {u}, !.ended = @ \ {u}]
               ELSE recv
  /\ last' = [op |-> "stopReceivingUser", user |-> u, wasOpen |-> u \in LiveStreams]
  /\ UNCHANGED <<isProcessing, transcriptBuffer, silenceTimer, orphanTimers, cycles>>
  /\ UNCHANGED outVars
  /\ UNCHANGED chanVars

\* stopListening(): receiver.stopAll() if there is a receiver; the timer of the
\* handle is cleared and the handle set to null; then pipeline.disconnect().
StopListening ==
  /\ recv' = IF recv.exists THEN StopAll(recv) ELSE recv
  /\ silenceTimer' = "null"
  /\ PipelineDisconnect
  /\ teardown' = TRUE
  /\ last' = [op |-> "stopListening", hadStreams |-> recv.activeStreams # {},
              wasReady |-> IsReady]
  /\ UNCHANGED <<isProcessing, transcriptBuffer, orphanTimers, cycles>>
  /\ UNCHANGED outVars
  /\ UNCHANGED <<failedRun, audioCalls, readyCalls, wire>>

\* attach(connection), called once on a new handler: the receiver is created,
\* then await pipeline.connect().
Attach ==
  /\ ~recv.exists
  /\ recv' = [recv EXCEPT !.exists = TRUE]
  /\ PipelineConnect
  /\ teardown' = FALSE
  /\ failedRun' = 0
  /\ last' = [op |-> "attach"]
  /\ UNCHANGED <<audioCalls, readyCalls, wire>>
  /\ UNCHANGED <<isProcessing, transcriptBuffer, silenceTimer, orphanTimers, cycles>>
  /\ UNCHANGED outVars

\* startListeningToUser(u) -> receiver.startReceivingUser(u, callback):
\* connection.receiver.subscribe(u) returns the speaker's opus stream (the one
\* it already has, if any); a new decoder -> resampler -> callback chain is
\* piped from it and stored under u. A chain stored under u before is neither
\* looked for nor destroyed: if its opus stream is live it keeps calling the
\* callback.
StartListeningToUser(u) ==
  /\ recv.exists
  /\ ~recv.crashed
  /\ u \in LiveStreams => recv.leaked[u] < MaxLeaked
  /\ recv' = [recv EXCEPT !.activeStreams = @ \cup {u},
                         !.ended = @ \ {u},
                         !.leaked[u] = IF u \in LiveStreams THEN @ + 1 ELSE @]
  /\ last' = [op |-> "startListeningToUser", user |-> u,
              wasOpen |-> u \in LiveStreams]
  /\ UNCHANGED <<isProcessing, transcriptBuffer, silenceTimer, orphanTimers, cycles>>
  /\ UNCHANGED outVars
  /\ UNCHANGED chanVars

\* A PCM chunk of speaker u comes out of the resamplers: every live chain of u
\* calls callback(chunk), that is pipeline.processAudio(chunk).
SpeakerChunk(u) ==
  /\ ~recv.crashed
  /\ LiveChains(u) > 0
  /\ recv.produced[u] < MaxChunks
  /\ recv' = [recv EXCEPT !.produced[u] = @ + 1]
  /\ forwarded' = forwarded \o [i \in 1..LiveChains(u) |-> <<u, recv.produced[u] + 1>>]
  /\ last' = [op |-> "chunk", user |-> u, forwards |-> LiveChains(u)]
  /\ UNCHANGED <<isProcessing, transcriptBuffer, silenceTimer, orphanTimers, cycles>>
  /\ UNCHANGED <<speaks, played, context>>
  /\ UNCHANGED chanVars

\* The opus stream of speaker u ends (100 ms of silence, EndBehaviorType.
\* AfterSilence) and the end travels down every chain piped from it. The 'end'
\* listener that would delete the map key is registered on the last Transform
\* of the chain; nothing consumes that Transform (it is not piped on, has no
\* 'data' listener and is never read), and a readable stream emits 'end' only
\* after its data has been consumed: the listener does not run and the key
\* stays in the map.
StreamEnds(u) ==
  /\ ~recv.crashed
  /\ u \in LiveStreams
  /\ recv' = [recv EXCEPT !.ended = @ \cup {u}, !.leaked[u] = 0]
  /\ last' = [op |-> "streamEnded", user |-> u]
  /\ UNCHANGED <<isProcessing, transcriptBuffer, silenceTimer, orphanTimers, cycles>>
  /\ UNCHANGED outVars
  /\ UNCHANGED chanVars

\* The decoder or the resampler of a chain of speaker u fails and emits
\* 'error'. pipe() forwards no errors, the only 'error' listener of the chain
\* is on its last Transform, and no handler for uncaught exceptions is
\* installed: the event is unhandled and ends the process, and with it every
\* stream of the session.
StreamErrors(u) ==
  /\ ~recv.crashed
  /\ LiveChains(u) > 0
  /\ recv' = [recv EXCEPT !.crashed = TRUE, !.activeStreams = {}, !.ended = {},
                         !.leaked = [v \in Users |-> 0]]
  /\ last' = [op |-> "streamError", user |-> u]
  /\ UNCHANGED <<isProcessing, transcriptBuffer, silenceTimer, orphanTimers, cycles>>
  /\ UNCHANGED outVars
  /\ UNCHANGED chanVars

----------------------------------------------------------------------------
(* Specification of the channel alone: a DeepgramSTT instance driven through *)
(* its public operations, its sockets and its timers.                       *)

\* a DeepgramSTT after construction
NewStt ==
  [isConnected |-> FALSE, connectionState |-> "disconnected",
   reconnectAttempts |-> 0, reconnectTimers |-> 0, delays |-> <<>>,
   unsettled |-> FALSE, subscribed |-> FALSE,
   keepAliveInterval |-> FALSE, liveIntervals |-> 0]

\* no VoiceReceiver yet (this.receiver = null)
NoReceiver ==
  [exists |-> FALSE, activeStreams |-> {}, ended |-> {},
   leaked |-> [u \in Users |-> 0], produced |-> [u \in Users |-> 0],
   crashed |-> FALSE, emptyPackets |-> 0, silentPackets |-> 0]

ChanInit ==
  /\ stt = NewStt
  /\ ws = NoSocket
  /\ stale = EmptyBag
  /\ teardown = FALSE
  /\ failedRun = 0
  /\ audioCalls = 0
  /\ readyCalls = {}
  /\ wire = {}

\* a handler after construction, its pipeline holding the given log
HandlerStart(log) ==
  /\ recv = NoReceiver
  /\ isProcessing = FALSE
  /\ transcriptBuffer = <<>>
  /\ silenceTimer = "null"
  /\ orphanTimers = 0
  /\ cycles = <<>>
  /\ speaks = 0
  /\ played = 0
  /\ context = log
  /\ forwarded = <<>>
  /\ last = [op |-> "constructed"]

HandlerInit == HandlerStart(<<>>)

\* the state after construction
Init == ChanInit /\ HandlerInit

ChanNext ==
  \/ Connect
  \/ ReconnectTimerFires
  \/ \E k \in LiveSockets : SocketOpen(k)
  \/ \E k \in LiveSockets : SocketFail(k)
  \/ \E k \in LiveSockets : SocketClose(k)
  \/ Disconnect
  \/ SendAudio

SpecChannel == Init /\ [][ChanNext]_vars

\* The channel with its subscriber: transcript messages instead of audio.
EventsNext ==
  \/ Connect
  \/ ReconnectTimerFires
  \/ \E k \in LiveSockets : SocketOpen(k)
  \/ \E k \in LiveSockets : SocketFail(k)
  \/ \E k \in LiveSockets : SocketClose(k)
  \/ Disconnect
  \/ OnTranscription
  \/ \E k \in LiveSockets : SocketMessage(k)

SpecEvents == Init /\ [][EventsNext]_vars

\* The session's audio side: an attached handler, its speaker streams, the
\* channel with its automatic reconnects, and the teardown.
SessionNext ==
  \/ Attach
  \/ ReconnectTimerFires
  \/ \E k \in LiveSockets : SocketOpen(k)
  \/ \E k \in LiveSockets : SocketFail(k)
  \/ \E k \in LiveSockets : SocketClose(k)
  \/ \E u \in Users : StartListeningToUser(u)
  \/ StopListening

SpecSession == Init /\ [][SessionNext]_vars

\* The receiver of an attached session: speakers are listened to, and their
\* streams deliver chunks, end and fail.
ReceiverNext ==
  \/ Attach
  \/ \E k \in LiveSockets : ~recv.crashed /\ SocketOpen(k)
  \/ \E u \in Users : StartListeningToUser(u)
  \/ \E u \in Users : SpeakerChunk(u)
  \/ \E u \in Users : StreamEnds(u)
  \/ \E u \in Users : StreamErrors(u)
  \/ \E u \in Users : StopReceivingUser(u)
  \/ ~recv.crashed /\ StopListening

SpecReceiver == Init /\ [][ReceiverNext]_vars

----------------------------------------------------------------------------
(* Specification of the assembler: a VoiceHandler that receives transcript  *)
(* events in any order and at any time, its finalization timer and its      *)
(* reply cycles.                                                            *)

Next ==
  \/ \E t \in Transcripts, f \in BOOLEAN :
       HandleTranscription(t, f) /\ UNCHANGED <<recv, speaks, played, context, forwarded>>
                                 /\ UNCHANGED chanVars
  \/ SilenceTimerFires
  \/ \E c \in 1..Len(cycles) : GenerateReturns(c)
  \/ \E c \in 1..Len(cycles) : GenerateThrows(c)
  \/ \E c \in 1..Len(cycles) : SpeakSettles(c)
  \/ Speak
  \/ SpeakReturns
  \/ ClearContext
  \/ StopListening

Spec == Init /\ [][Next]_vars

\* A call of generateResponse or synthesizeSpeech settles, and the event loop
\* then runs the continuation.
CycleSettles ==
  \E c \in 1..Len(cycles) : GenerateReturns(c) \/ GenerateThrows(c) \/ SpeakSettles(c)

FairSpec == Spec /\ WF_vars(CycleSettles)

\* The channel with its keep-alive and the assembler side by side: the channel
\* connects, opens, closes and reconnects while transcripts arrive, the
\* finalization timer fires and reply cycles run.
KeepAliveNext ==
  \/ Connect
  \/ ReconnectTimerFires
  \/ \E k \in LiveSockets : SocketOpen(k)
  \/ \E k \in LiveSockets : SocketClose(k)
  \/ KeepAliveTick
  \/ \E f \in BOOLEAN :
       HandleTranscription(Rep("b", 49), f)
         /\ UNCHANGED <<recv, speaks, played, context, forwarded>>
         /\ UNCHANGED chanVars
  \/ SilenceTimerFires
  \/ \E c \in 1..Len(cycles) : GenerateThrows(c)

SpecKeepAlive == Init /\ [][KeepAliveNext]_vars

\* The assembler of an attached session: the handler is attached, its channel
\* opens, speakers are listened to, and transcripts, timer firings, reply
\* cycles and clearContext() interleave.
AttachedNext ==
  \/ Attach
  \/ \E k \in LiveSockets : SocketOpen(k)
  \/ \E u \in Users : StartListeningToUser(u)
  \/ \E t \in Transcripts, f \in BOOLEAN :
       HandleTranscription(t, f) /\ UNCHANGED <<recv, speaks, played, context, forwarded>>
                                 /\ UNCHANGED chanVars
  \/ SilenceTimerFires
  \/ \E c \in 1..Len(cycles) : GenerateReturns(c)
  \/ \E c \in 1..Len(cycles) : SpeakSettles(c)
  \/ ClearContext

SpecAttached == Init /\ [][AttachedNext]_vars

\* the transcripts a round trip is run with
Utterances == {Rep(ch, n) : ch \in {"a", "b"}, n \in 1..MaxUtterance}

\* A round trip: a new session receives one final transcript and nothing
\* else; its timer fires, and reply generation and synthesis succeed.
RoundTripNext ==
  \/ \E t \in Utterances :
       /\ last.op = "constructed"
       /\ HandleTranscription(t, TRUE)
       /\ UNCHANGED <<recv, speaks, played, context, forwarded>>
       /\ UNCHANGED chanVars
  \/ SilenceTimerFires
  \/ \E c \in 1..Len(cycles) : GenerateReturns(c)
  \/ \E c \in 1..Len(cycles) : SpeakSettles(c) /\ last'.outcome = "audio"

\* The timer fires after its second and the awaited calls settle.
FairRoundTrip == Init /\ [][RoundTripNext]_vars /\ WF_vars(RoundTripNext)

----------------------------------------------------------------------------
(* Claims about the reply cycle and the finalization timer (Spec, FairSpec) *)

\* C1: at most one reply cycle is in progress at any time: generateResponse is
\* never invoked while an earlier invocation of the session has not finished.
C1_AtMostOneCycle == Len(cycles) <= 1

\* a timer fired while a cycle was in flight and text was buffered
C1_Witness ==
  /\ last.op = "processTranscript"
  /\ last.outcome = "busy"
  /\ Len(cycles) = 1
  /\ transcriptBuffer # <<>>

\* C2: when the finalization timer fires while a reply cycle is in flight, the
\* buffered utterance is discarded: the Transcript Buffer is empty afterwards.
C2_BusyFiringDiscards ==
  (last.op = "processTranscript" /\ last.outcome = "busy") => transcriptBuffer = <<>>

\* C3: every reply cycle that starts releases the processing flag again,
\* whether generateResponse or speak returns or throws.
C3_FlagReleased == isProcessing ~> ~isProcessing

\* a cycle ended by generateResponse throwing, the flag released
C3_Witness ==
  /\ last.op = "generateThrew"
  /\ ~isProcessing
  /\ cycles = <<>>

\* C8 as claimed: a non-empty fragment arriving while a finalization timer is
\* pending leaves a timer pending when handleTranscription returns.
C8_AlwaysRescheduled ==
  (last.op = "handleTranscription" /\ ~last.ignored /\ last.hadTimer)
    => silenceTimer = "pending"

\* C8 as amended: a non-empty fragment arriving while a finalization timer is
\* pending cancels that timer; a new one is pending afterwards exactly when
\* is_final is true or the buffer is longer than 100 characters, and none
\* otherwise.
C8_CancelledThenArmedOnCondition ==
  (last.op = "handleTranscription" /\ ~last.ignored /\ last.hadTimer)
    => PendingTimers = (IF last.final \/ Len(transcriptBuffer) > 100 THEN 1 ELSE 0)

\* an interim fragment cancelled the pending timer and armed none
C8_Witness ==
  /\ last.op = "handleTranscription"
  /\ ~last.ignored
  /\ last.hadTimer
  /\ ~last.final
  /\ silenceTimer = "spent"
  /\ PendingTimers = 0

\* C9: in every reachable state at most one finalization timer is pending.
C9_AtMostOneTimer == PendingTimers <= 1

\* a fragment re-armed the timer while one was pending
C9_Witness ==
  /\ last.op = "handleTranscription"
  /\ ~last.ignored
  /\ last.hadTimer
  /\ silenceTimer = "pending"

\* C10: after a non-empty fragment is appended, the finalization timer is armed
\* exactly when is_final is true or the buffer is longer than 100 characters.
C10_ArmedIffFinalOrLong ==
  (last.op = "handleTranscription" /\ ~last.ignored)
    => ((silenceTimer = "pending") <=> (last.final \/ Len(transcriptBuffer) > 100))

\* an interim fragment filled the buffer to exactly 100 characters: no timer
C10_Witness ==
  /\ last.op = "handleTranscription"
  /\ ~last.ignored
  /\ ~last.final
  /\ Len(transcriptBuffer) = 100
  /\ silenceTimer # "pending"

\* C11: generateResponse is never called with an empty or whitespace-only
\* utterance: a timer firing on a blank buffer starts no cycle and leaves the
\* processing flag as it was (false when idle); a firing on a non-blank buffer
\* of an idle handler takes the whole trimmed buffer in that one step and
\* leaves the buffer empty.
C11_NeverBlankUtterance ==
  /\ [](\A c \in 1..Len(cycles) :
          /\ cycles[c].input # <<>>
          /\ Head(cycles[c].input) # Space
          /\ cycles[c].input[Len(cycles[c].input)] # Space)
  /\ [][last'.op = "processTranscript" =>
          /\ Trim(transcriptBuffer) = <<>> =>
                (cycles' = cycles /\ isProcessing' = isProcessing)
          /\ (Trim(transcriptBuffer) # <<>> /\ ~isProcessing) =>
                /\ transcriptBuffer' = <<>>
                /\ isProcessing'
                /\ cycles' = Append(cycles, [phase |-> "generate",
                                             input |-> Trim(transcriptBuffer)])]_vars

\* the timer fired on an empty buffer (cleared while the timer was pending)
C11_Witness ==
  /\ last.op = "processTranscript"
  /\ last.outcome = "blank"
  /\ transcriptBuffer = <<>>
  /\ ~isProcessing
  /\ cycles = <<>>

----------------------------------------------------------------------------
(* Claims about the Transcription Channel (SpecChannel) *)

\* C4: after an intentional disconnect() no reconnect happens: no reconnect
\* timer is pending while the channel is torn down.
C4_NoReconnectAfterDisconnect == teardown => stt.reconnectTimers = 0

\* C5: reconnectAttempts stays within 0..5, and after 5 consecutive failed
\* reconnect attempts with no open in between no further attempt is or remains
\* scheduled and the channel is not connected.
C5_ReconnectCeiling ==
  /\ stt.reconnectAttempts \in 0..maxReconnectAttempts
  /\ failedRun >= 5 =>
       /\ stt.reconnectAttempts = maxReconnectAttempts
       /\ stt.reconnectTimers = 0
       /\ ~IsReady

\* C6: an unexpected close or a failed attempt schedules one reconnect attempt
\* and consumes one unit of the attempt budget: no step adds more than one
\* pending reconnect timer or counts more than one attempt.
C6_OneAttemptPerFailure ==
  [][/\ stt'.reconnectTimers <= stt.reconnectTimers + 1
     /\ stt'.reconnectAttempts <= stt.reconnectAttempts + 1]_vars

\* C7: sendAudio forwards a chunk if and only if the channel was connected
\* (isReady) at the time of the call; a chunk dropped then is never on the wire
\* later.
C7_ForwardedIffConnected ==
  /\ wire = readyCalls
  /\ wire \subseteq 1..audioCalls

\* the first chunk was dropped during an outage, the second sent after recovery
C7_Witness ==
  /\ audioCalls = 2
  /\ 1 \notin wire
  /\ 2 \in wire
  /\ IsReady

\* C16: at most one socket of a DeepgramSTT instance is open or connecting at
\* any time, and a socket replaced by a new connect() is no longer live: the
\* only sockets besides this.ws that still emit events are closing ones.
C16_SingleConnection ==
  /\ \A s \in BagToSet(stale) : s.state = "CLOSING"
  /\ Cardinality({k \in LiveSockets : k[2].state \in {"CONNECTING", "OPEN"}}) <= 1

\* C17: getConnectionState() follows the channel: 'disconnected' before the
\* first connect(), 'connected' only while the socket is open; it leaves
\* 'connected' as soon as the socket closes, errors or disconnect() is called.
C17_StateFollowsSocket ==
  /\ (ws = NoSocket /\ ~teardown) => stt.connectionState = "disconnected"
  /\ stt.connectionState = "connected" => (ws # NoSocket /\ ws.state = "OPEN")

\* C18: every connect() settles: no handshake ends with the promise of its
\* connect() call neither resolved nor rejected.
C18_ConnectSettles == ~stt.unsettled

\* C19: in a run of failures starting from reconnectAttempts = 0 the delay
\* scheduled before reconnect attempt k is reconnectDelay * 2^(k-1):
\* 1000, 2000, 4000, 8000, 16000 ms for k = 1..5.
C19_BackoffDelays ==
  /\ Len(stt.delays) = stt.reconnectAttempts
  /\ \A k \in 1..Len(stt.delays) :
       stt.delays[k] = <<1000, 2000, 4000, 8000, 16000>>[k]

\* the whole budget was scheduled, the last attempt after 16 s
C19_Witness ==
  /\ stt.reconnectAttempts = 5
  /\ Len(stt.delays) = 5
  /\ stt.delays[5] = 16000

\* C20: an open resets reconnectAttempts to 0, so that the next unexpected
\* close of the open connection is attempt 1 again and is scheduled after the
\* base delay.
C20_OpenRestoresBudget ==
  [][/\ (\E k \in LiveSockets : SocketOpen(k)) => stt'.reconnectAttempts = 0
     /\ (ws.state = "OPEN" /\ ws'.state = "CLOSED") =>
          /\ stt'.reconnectAttempts = 1
          /\ stt'.delays = <<reconnectDelay>>]_vars

\* C15: the subscriber registered with onTranscription keeps receiving across
\* reconnects: a Results message with a non-empty transcript that arrives on
\* the connection an automatic reconnect established is delivered to it.
C15_DeliveredAfterReconnect ==
  (/\ last.op = "message"
   /\ last.subscribed
   /\ last.on = "ws"
   /\ last.origin = "timer") => last.delivered

----------------------------------------------------------------------------
(* Claims about the session's streams and its teardown *)

\* C12: startListeningToUser is idempotent: however often it is called for a
\* speaker, exactly one stream chain exists for that speaker and each of the
\* speaker's chunks is forwarded once.
C12_StartListeningIdempotent ==
  /\ \A u \in Users : recv.leaked[u] = 0
  /\ last.op = "chunk" => last.forwards = 1

\* C13: after stopListening() no finalization timer is pending or fires and
\* no reply cycle starts, whatever is delivered after the call.
C13_NothingAfterTeardown ==
  teardown => (PendingTimers = 0 /\ last.op # "processTranscript")

\* C14: when stopListening() returns the session has no open speaker stream
\* (getActiveUsers is empty, no chain forwards any more) and the channel is
\* disconnected (isReady false).
C14_TeardownClosesAll ==
  [][StopListening =>
       /\ recv'.activeStreams = {}
       /\ \A u \in Users : LiveChains(u)' = 0
       /\ ~IsReady']_vars

----------------------------------------------------------------------------
(* Claims about the processing flag, speak() and clearContext() (Spec)      *)

\* C21: the processing flag goes false -> true -> false exactly once for each
\* utterance handed to generateResponse: the flag is raised on exactly the
\* steps that invoke generateResponse and lowered on exactly the steps that end
\* a cycle, it is set exactly while a cycle is in flight, and a timer firing
\* that is dropped (busy, or blank buffer) does not change the flag.
C21_FlagOncePerUtterance ==
  /\ [](isProcessing <=> Len(cycles) = 1)
  /\ [][/\ (~isProcessing /\ isProcessing') <=> (Len(cycles') = Len(cycles) + 1)
        /\ (isProcessing /\ ~isProcessing') <=> (Len(cycles') = Len(cycles) - 1)
        /\ (last'.op = "processTranscript" /\ last'.outcome \in {"busy", "blank"})
             => (isProcessing' = isProcessing)]_vars

\* a second utterance is in flight after the first one was spoken
C21_Witness ==
  /\ isProcessing
  /\ played = 1
  /\ Len(context) = 2
  /\ Len(cycles) = 1
  /\ cycles[1].phase = "generate"

\* C22: speak(text) leaves the Transcript Buffer, the pending finalization
\* timer and the processing flag unchanged, and is never blocked by them: an
\* explicit speak() can be issued in every state, also while a reply cycle is
\* in flight, and once issued it can go through synthesis to playback without
\* the cycle ending first.
C22_SpeakIndependent ==
  /\ [](speaks < MaxSpeaks => ENABLED Speak)
  /\ []((speaks > 0 /\ played < MaxPlayed) => ENABLED (SpeakReturns /\ played' = played + 1))
  /\ [][(last'.op = "speak" \/ (last'.op = "spoke" /\ ~last'.cycle))
          => UNCHANGED <<transcriptBuffer, silenceTimer, orphanTimers, isProcessing, cycles>>]_vars

\* an explicit speak() was issued during a reply cycle and its audio was played
\* while that cycle was still waiting for its reply, with text and a timer
\* pending
C22_Witness ==
  /\ last.op = "spoke"
  /\ ~last.cycle
  /\ last.outcome = "audio"
  /\ played = 1
  /\ isProcessing
  /\ Len(cycles) = 1
  /\ cycles[1].phase = "generate"
  /\ context = <<>>
  /\ transcriptBuffer # <<>>
  /\ silenceTimer = "pending"

\* C23 (SpecAttached): clearContext() empties the conversation-context log and
\* the Transcript Buffer and changes nothing else: the receiver's streams, the
\* channel and its sockets, the processing flag, the cycle in flight, the
\* timers and the playback are the same after the call as before it; and the
\* text it dropped is not handed to generateResponse afterwards: a
\* finalization timer that fires after the call, before any new transcript,
\* starts no reply cycle.
C23_ClearContextFrame ==
  /\ [][ClearContext =>
          /\ context' = <<>>
          /\ transcriptBuffer' = <<>>
          /\ UNCHANGED <<recv, stt, ws, stale, teardown, isProcessing, cycles>>
          /\ UNCHANGED <<silenceTimer, orphanTimers, speaks, played>>]_vars
  /\ [][(last.op = "clearContext" /\ SilenceTimerFires) => last'.outcome # "started"]_vars

\* clearContext() was called with text buffered, a timer pending, entries in
\* the log, a cycle in flight, a speaker stream open and the channel connected
C23_Witness ==
  /\ last.op = "clearContext"
  /\ last.dropped # <<>>
  /\ last.entries # <<>>
  /\ context = <<>>
  /\ transcriptBuffer = <<>>
  /\ silenceTimer = "pending"
  /\ isProcessing
  /\ recv.activeStreams # {}
  /\ IsReady

\* C26: the text handed to generateResponse at finalization is exactly the
\* non-empty fragments received since the buffer was last drained or reset, in
\* the order received, joined by single spaces, with nothing added, lost or
\* reordered: a non-blank fragment is appended to the buffer after one space,
\* a blank one leaves the buffer alone, every other change of the buffer
\* empties it, and the text handed over is the buffer without its leading
\* space.
C26_UtteranceIsJoinedFragments ==
  [][/\ (last'.op = "handleTranscription" /\ ~last'.ignored)
          => transcriptBuffer' = transcriptBuffer \o <<Space>> \o last'.text
     /\ (last'.op = "handleTranscription" /\ last'.ignored)
          => transcriptBuffer' = transcriptBuffer
     /\ (last'.op # "handleTranscription" /\ transcriptBuffer' # transcriptBuffer)
          => transcriptBuffer' = <<>>
     /\ (Len(cycles') = Len(cycles) + 1)
          => (/\ cycles'[Len(cycles')].input = Tail(transcriptBuffer)
              /\ transcriptBuffer' = <<>>)]_vars

\* an utterance made of two fragments, in the order received, is in flight
C26_Witness ==
  /\ Len(cycles) = 1
  /\ cycles[1].input = Rep("a", 33) \o <<Space>> \o Rep("b", 49)
  /\ last.op = "processTranscript"
  /\ last.outcome = "started"

\* C27 (FairRoundTrip): for a session that receives a single final transcript
\* and no other event, the finalization timer fires once, exactly one
\* utterance, equal to that transcript, is handed to generateResponse, and
\* exactly one resource with the synthesized audio is submitted to the player:
\* the timer fires only right after the transcript and then starts the cycle
\* with the transcript as input, the only submission is the one of that cycle,
\* and the session ends up idle with one resource played.
C27_RoundTrip ==
  /\ [](Len(cycles) <= 1 /\ played <= 1)
  /\ [][SilenceTimerFires =>
          /\ last.op = "handleTranscription"
          /\ last'.outcome = "started"
          /\ cycles' = <<[phase |-> "generate", input |-> last.text]>>]_vars
  /\ [][played' # played =>
          (played' = 1 /\ last'.op = "spoke" /\ last'.outcome = "audio" /\ last'.cycle)]_vars
  /\ (last.op = "handleTranscription")
       ~> [](played = 1 /\ ~isProcessing /\ cycles = <<>> /\ PendingTimers = 0)

\* the round trip is complete: the reply to the transcript has been played
C27_Witness ==
  /\ last.op = "spoke"
  /\ last.outcome = "audio"
  /\ played = 1
  /\ Len(context) = 2
  /\ ~isProcessing
  /\ cycles = <<>>
  /\ transcriptBuffer = <<>>
  /\ silenceTimer = "spent"

\* C28 (SpecKeepAlive): a keep-alive tick sends the keep-alive message only
\* when the socket is open, and it changes no transcript or session state: the
\* Transcript Buffer, the finalization timers, the processing flag, the cycle
\* in flight, the reconnect counter with the rest of the channel's fields and
\* the sockets are the same after the tick as before it.
C28_KeepAliveFrame ==
  /\ []((last.op = "keepAlive" /\ last.sent) => last.state = "OPEN")
  /\ [][KeepAliveTick =>
          /\ UNCHANGED <<transcriptBuffer, silenceTimer, orphanTimers, isProcessing, cycles>>
          /\ UNCHANGED <<stt, ws, stale>>]_vars

\* a tick sent the message while text was buffered, a timer pending, a cycle
\* in flight and the reconnect counter raised
C28_Witness ==
  /\ last.op = "keepAlive"
  /\ last.sent
  /\ transcriptBuffer # <<>>
  /\ silenceTimer = "pending"
  /\ isProcessing
  /\ stt.reconnectAttempts > 0

\* C29: when reply generation or synthesis fails inside a reply cycle, the
\* failure is recovered by the handler: a fallback apology is submitted to
\* playback, no error escapes processTranscript (the cycle ends), and the
\* processing flag is cleared.
C29_FailureRecovered ==
  [][\A c \in 1..Len(cycles) :
       (GenerateThrows(c) \/ (SpeakSettles(c) /\ last'.outcome = "error"))
         => /\ played' = played + 1
            /\ cycles' = RemoveAt(cycles, c)
            /\ ~isProcessing']_vars

\* C30: speak(text) never raises to its caller and submits at most one
\* resource to the player per call: when synthesis fails or returns empty
\* audio the call submits nothing, otherwise it submits exactly one resource;
\* in each case the call returns: an explicit call is over, and a reply cycle
\* goes on to its finally block.
C30_SpeakSubmitsAtMostOne ==
  [][last'.op = "spoke" =>
       /\ played' = played + (IF last'.outcome = "audio" THEN 1 ELSE 0)
       /\ IF last'.cycle
            THEN Len(cycles') = Len(cycles) - 1 /\ ~isProcessing' /\ speaks' = speaks
            ELSE speaks' = speaks - 1 /\ cycles' = cycles /\ isProcessing' = isProcessing]_vars

\* an explicit speak() got empty audio and submitted nothing, after an earlier
\* call had submitted its resource
C30_Witness ==
  /\ last.op = "spoke"
  /\ last.outcome = "empty"
  /\ ~last.cycle
  /\ played = 1
  /\ speaks = 0

----------------------------------------------------------------------------
(* Claims about the speaker streams (SpecReceiver)                          *)

\* C24: a failure of one speaker stream is local to it: when the stream of
\* speaker u errors or ends, u is removed from the active set, every other
\* speaker's stream stays open and keeps delivering chunks, and the channel,
\* the Transcript Buffer and the processing flag are unchanged.
C24_StreamFailureLocal ==
  [][\A u \in Users :
       (StreamEnds(u) \/ StreamErrors(u)) =>
         /\ u \notin recv'.activeStreams
         /\ \A v \in Users \ {u} :
              /\ ~recv'.crashed
              /\ (v \in LiveStreams) => (v \in LiveStreams')
              /\ LiveChains(v)' = LiveChains(v)
         /\ UNCHANGED <<stt, ws, stale, transcriptBuffer, isProcessing>>]_vars

\* the chunks of speaker u among those handed to processAudio, in call order
ChunksOf(u) == SelectSeq(forwarded, LAMBDA c : c[1] = u)

\* C25: with several speaker streams interleaving onto the one channel, the
\* chunks of each speaker reach the channel in the order the speaker's stream
\* produced them, none duplicated and none reordered: for each speaker the
\* chunk numbers handed on are strictly increasing.
C25_PerStreamOrder ==
  \A u \in Users :
    \A i, j \in 1..Len(ChunksOf(u)) :
      i < j => ChunksOf(u)[i][2] < ChunksOf(u)[j][2]

----------------------------------------------------------------------------
(* The command surface: !join / !stage, !listen, !leave *)

\* main's variable voice refers to a handler that was attached and not left
VoiceActive == recv.exists /\ ~teardown

\* what the handler still has running: speakers with a live stream chain,
\* pending finalization timers, pending reconnect timers, keep-alive
\* intervals, and sockets that are connecting or open
Running ==
  [streams    |-> {u \in Users : LiveChains(u) > 0},
   timers     |-> PendingTimers,
   reconnects |-> stt.reconnectTimers,
   intervals  |-> stt.liveIntervals,
   sockets    |-> {k \in LiveSockets : k[2].state \in {"CONNECTING", "OPEN"}}]

NothingRunning(r) ==
  /\ r.streams = {}
  /\ r.timers = 0
  /\ r.reconnects = 0
  /\ r.intervals = 0
  /\ r.sockets = {}

\* !join / !stage: voice = new VoiceHandler(); await voice.attach(conn);
\* await voice.startListening(). A handler voice referred to before is not
\* stopped: the variables describe the new handler from here on, and what the
\* replaced one still had running is recorded in last.
Join ==
  /\ recv' = [NoReceiver EXCEPT !.exists = TRUE]
  /\ stt' = [NewStt EXCEPT !.connectionState = "connecting"]
  /\ ws' = NewSocket("app")
  /\ stale' = EmptyBag
  /\ teardown' = FALSE
  /\ failedRun' = 0
  /\ audioCalls' = 0
  /\ readyCalls' = {}
  /\ wire' = {}
  /\ isProcessing' = FALSE
  /\ transcriptBuffer' = <<>>
  /\ silenceTimer' = "null"
  /\ orphanTimers' = 0
  /\ cycles' = <<>>
  /\ speaks' = 0
  /\ played' = 0
  /\ context' = <<>>
  /\ forwarded' = <<>>
  /\ last' = [op |-> "join", replaced |-> VoiceActive, abandoned |-> Running]

\* !listen <user>: if (!voice) reply and return; voice.startListeningToUser(user)
Listen(u) == VoiceActive /\ StartListeningToUser(u)

\* !leave: if (voice) await voice.stopListening(); voice = null
Leave == VoiceActive /\ StopListening

CommandsNext ==
  \/ Join
  \/ \E u \in Users : Listen(u)
  \/ Leave
  \/ ReconnectTimerFires
  \/ \E k \in LiveSockets : SocketOpen(k)
  \/ \E k \in LiveSockets : SocketFail(k)
  \/ \E k \in LiveSockets : SocketClose(k)
  \/ \E f \in BOOLEAN :
       HandleTranscription(Rep("b", 49), f)
         /\ UNCHANGED <<recv, speaks, played, context, forwarded>>
         /\ UNCHANGED chanVars

SpecCommands == Init /\ [][CommandsNext]_vars

----------------------------------------------------------------------------
(* The pipeline's inbound intake: processAudio *)

\* the chunks handed to processAudio: of zero length, all silence, or speech
ChunkKinds == {"empty", "silent", "speech"}

\* an intake that takes no chunk for empty
IsEmptyChunkNever(kind) == FALSE

\* audioBuffer.length === 0
IsEmptyChunk(kind) == kind = "empty"

\* processAudio(chunk): a zero-length chunk is counted as an empty packet and
\* '' is returned; any other chunk is counted as silent if detectSilence says
\* so and handed to sendAudio(chunk).
ProcessAudio(kind) ==
  /\ IF IsEmptyChunk(kind)
       THEN /\ recv.emptyPackets < MaxChunks
            /\ recv' = [recv EXCEPT !.emptyPackets = @ + 1]
            /\ UNCHANGED chanVars
       ELSE /\ recv' = [recv EXCEPT !.silentPackets = IF kind = "speech" THEN @ ELSE @ + 1]
            /\ SendAudioFromIntake
  /\ last' = [op |-> "processAudio", kind |-> kind, wasReady |-> IsReady,
              returned |-> <<>>]
  /\ UNCHANGED <<isProcessing, transcriptBuffer, silenceTimer, orphanTimers, cycles>>
  /\ UNCHANGED outVars

IntakeNext ==
  \/ Connect
  \/ \E k \in LiveSockets : SocketOpen(k)
  \/ \E k \in LiveSockets : SocketClose(k)
  \/ Disconnect
  \/ \E kind \in ChunkKinds : ProcessAudio(kind)

SpecIntake == Init /\ [][IntakeNext]_vars

----------------------------------------------------------------------------
(* Construction of the components under an environment *)

\* the environment variables the components read
EnvVars == {"DEEPGRAM_API_KEY", "OPENROUTER_API_KEY", "OPENROUTER_MODEL", "DG_TTS_MODEL"}

Components == {"DeepgramSTT", "OpenRouterClient", "VoicePipeline"}

\* the credential a component cannot work without
RequiredKey(component) ==
  IF component = "OpenRouterClient" THEN "OPENROUTER_API_KEY" ELSE "DEEPGRAM_API_KEY"

\* the methods of a component that the model calls
Methods(component) ==
  CASE component = "DeepgramSTT"      -> {"connect"}
    [] component = "OpenRouterClient" -> {"chat"}
    [] component = "VoicePipeline"    -> {"processAudio", "generateResponse", "synthesizeSpeech"}

\* new Component() under env: the constructors of DeepgramSTT and
\* OpenRouterClient throw when their key is not set; constructor() {} of
\* VoicePipeline reads nothing.
ConstructOutcome(component, env) ==
  CASE component = "DeepgramSTT" ->
         IF "DEEPGRAM_API_KEY" \notin env THEN "threw" ELSE "constructed"
    [] component = "OpenRouterClient" ->
         IF "OPENROUTER_API_KEY" \notin env THEN "threw" ELSE "constructed"
    [] component = "VoicePipeline" -> "constructed"

\* a method called on a constructed component under env: synthesizeSpeech
\* reads DEEPGRAM_API_KEY and throws when it is not set; the other methods
\* use what the constructor stored or need no key.
CallOutcome(component, method, env) ==
  IF component = "VoicePipeline" /\ method = "synthesizeSpeech"
       /\ "DEEPGRAM_API_KEY" \notin env
    THEN "threw"
    ELSE "called"

Construct(component, env) ==
  /\ last' = [op |-> "construct", component |-> component, env |-> env,
              outcome |-> ConstructOutcome(component, env)]
  /\ UNCHANGED chanVars
  /\ UNCHANGED <<isProcessing, transcriptBuffer, silenceTimer, orphanTimers, cycles, recv>>
  /\ UNCHANGED outVars

\* a method of the component just constructed is called, the environment
\* being the one it was constructed under
Call(method) ==
  /\ last.op = "construct"
  /\ last.outcome = "constructed"
  /\ method \in Methods(last.component)
  /\ last' = [op |-> "call", component |-> last.component, env |-> last.env,
              method |-> method,
              outcome |-> CallOutcome(last.component, method, last.env)]
  /\ UNCHANGED chanVars
  /\ UNCHANGED <<isProcessing, transcriptBuffer, silenceTimer, orphanTimers, cycles, recv>>
  /\ UNCHANGED outVars

ConstructNext ==
  \/ \E component \in Components, env \in SUBSET EnvVars : Construct(component, env)
  \/ \E method \in {"connect", "chat", "processAudio", "generateResponse", "synthesizeSpeech"} :
       Call(method)

SpecConstruct == Init /\ [][ConstructNext]_vars

----------------------------------------------------------------------------
(* OpenRouterClient.generateResponse as a function of its arguments *)

\* the longest context log handed to generateResponse
MaxLog == 7

\* the log of that length that alternates user / assistant entries, starts
\* with a user entry and whose first entry was recorded by cycle s
AlternatingLog(s, len) ==
  [i \in 1..len |->
     Entry(IF i % 2 = 1 THEN "user" ELSE "assistant", ((s - 1 + (i - 1) \div 2) % MaxCycles) + 1)]

AlternatingLogs == {AlternatingLog(s, len) : s \in 1..MaxCycles, len \in 0..MaxLog}

\* the user inputs handed to generateResponse
UserInputs == {Entry("user", k) : k \in 1..MaxCycles}

\* generateResponse(userInput, context) is called with the log as context
GenerateResponse(userInput) ==
  /\ last' = [op |-> "generateResponse", input |-> userInput,
              messages |-> BuildMessages(userInput, context)]
  /\ UNCHANGED chanVars
  /\ UNCHANGED <<isProcessing, transcriptBuffer, silenceTimer, orphanTimers, cycles, recv>>
  /\ UNCHANGED outVars

ReplyInit == ChanInit /\ \E log \in AlternatingLogs : HandlerStart(log)

ReplyNext == \E userInput \in UserInputs : GenerateResponse(userInput)

SpecReply == ReplyInit /\ [][ReplyNext]_vars

----------------------------------------------------------------------------
(* The silence gate: detectSilence as a function of the chunk's bytes *)

\* bytes of a PCM chunk that the model draws
MaxChunkBytes == 5

\* the byte values the chunks are made of
Bytes == {0, 128, 255}

\* 16-bit samples detectSilence inspects at most
ScanSamples == 2

\* peak amplitude from which a chunk counts as speech
SilenceThreshold == 100

RECURSIVE ChunksOfLength(_)
ChunksOfLength(n) ==
  IF n = 0 THEN {<<>>}
           ELSE {Append(c, b) : c \in ChunksOfLength(n - 1), b \in Bytes}

PcmChunks == UNION {ChunksOfLength(n) : n \in 0..MaxChunkBytes}

\* the i-th sample of the chunk: signed 16 bit, little endian (readInt16LE)
SampleAt(chunk, i) ==
  LET u == chunk[2 * i - 1] + 256 * chunk[2 * i]
  IN IF u >= 32768 THEN u - 65536 ELSE u

Abs(x) == IF x < 0 THEN 0 - x ELSE x

\* the samples inspected: whole samples only, at most ScanSamples of them
Scanned(chunk) ==
  IF Len(chunk) \div 2 <= ScanSamples THEN Len(chunk) \div 2 ELSE ScanSamples

RECURSIVE PeakFrom(_, _, _)
PeakFrom(chunk, i, n) ==
  IF i > n THEN 0
           ELSE LET rest == PeakFrom(chunk, i + 1, n)
                IN IF Abs(SampleAt(chunk, i)) > rest THEN Abs(SampleAt(chunk, i)) ELSE rest

\* the peak over the inspected samples but the first
PeakAfterFirst(chunk) == PeakFrom(chunk, 2, Scanned(chunk))

\* the peak absolute amplitude over the inspected samples
PeakAmplitude(chunk) == PeakFrom(chunk, 1, Scanned(chunk))

\* detectSilence(chunk): a chunk shorter than one sample is silence; otherwise
\* silence means the peak stays below the threshold
DetectSilenceResult(chunk) ==
  IF Len(chunk) < 2 THEN TRUE ELSE PeakAmplitude(chunk) < SilenceThreshold

\* pipeline.detectSilence(chunk) is called
DetectSilence(chunk) ==
  /\ last' = [op |-> "detectSilence", chunk |-> chunk, result |-> DetectSilenceResult(chunk)]
  /\ UNCHANGED chanVars
  /\ UNCHANGED <<isProcessing, transcriptBuffer, silenceTimer, orphanTimers, cycles, recv>>
  /\ UNCHANGED outVars

SilenceNext == \E chunk \in PcmChunks : DetectSilence(chunk)

SpecSilence == Init /\ [][SilenceNext]_vars

----------------------------------------------------------------------------
(* Claims about the conversation context (Spec, SpecReply) *)

\* s is the last Len(s) entries of t
IsSuffix(s, t) == Len(s) <= Len(t) /\ s = SubSeq(t, Len(t) - Len(s) + 1, Len(t))

\* the entry recorded right after entry e
NextEntry(e) ==
  IF e[1] = "user" THEN Entry("assistant", e[2]) ELSE Entry("user", (e[2] % MaxCycles) + 1)

\* the contents of the context messages of a request, in the order sent
SentContext(messages) ==
  [i \in 1..(Len(messages) - 2) |-> messages[i + 1].content]

C32_RolesPreserved ==
  last.op = "generateResponse" =>
    /\ last.messages[1] = [role |-> "system", content |-> SystemPrompt]
    /\ last.messages[Len(last.messages)] = [role |-> "user", content |-> last.input]
    /\ \A i \in 2..(Len(last.messages) - 1) :
         last.messages[i].role = last.messages[i].content[1]


----------------------------------------------------------------------------
(* Claims about the command surface (SpecCommands) *)

\* C33 (SpecCommands): nothing outlives its session: when !leave has ended the
\* session, the handler has no live speaker stream, no pending finalization or
\* reconnect timer, no keep-alive interval and no connecting or open
\* transcription socket; and when !join or !stage replaces an active handler,
\* the replaced handler has none of these either.
C33_NothingOutlivesSession ==
  /\ [][Leave => NothingRunning(Running')]_vars
  /\ [][(Join /\ VoiceActive) => NothingRunning(last'.abandoned)]_vars


----------------------------------------------------------------------------
(* Claims about the silence gate (SpecSilence) *)

----------------------------------------------------------------------------
(* Claims about the inbound intake (SpecIntake) *)

----------------------------------------------------------------------------
(* Claims about configuration errors (SpecConstruct) *)

\* C36 (SpecConstruct): a component whose required credential is missing
\* fails at construction: constructing DeepgramSTT, OpenRouterClient or
\* VoicePipeline without its API key throws, and no method called on a
\* constructed component fails for the missing key.
C36_FailsAtConstruction ==
  /\ (last.op = "construct" /\ RequiredKey(last.component) \notin last.env)
       => last.outcome = "threw"
  /\ (last.op = "call" /\ RequiredKey(last.component) \notin last.env)
       => last.outcome # "threw"


----------------------------------------------------------------------------
(* Claims about the keep-alive interval (SpecChannel) *)

\* C37 (SpecChannel): at most one keep-alive interval of the instance is
\* running in every reachable state, and none is running while the channel is
\* not connected.
C37_SingleKeepAlive ==
  /\ stt.liveIntervals <= 1
  /\ ~stt.isConnected => stt.liveIntervals = 0


----------------------------------------------------------------------------
(* Claims about the map of the receiver (SpecReceiver) *)

\* C38 (SpecReceiver): after any sequence of startReceivingUser,
\* stopReceivingUser, stopAll and stream end and error events, getActiveUsers()
\* is exactly the set of speakers that have a live stream: every speaker with
\* a live stream chain is in the map and every key of the map has one.
C38_ActiveUsersAreLive ==
  ~recv.crashed => GetActiveUsers = {u \in Users : LiveChains(u) > 0}


----------------------------------------------------------------------------
(* Claims about text arriving during a reply cycle (Spec) *)

\* the inputs of the reply cycles in flight
InputsOf(cs) == [c \in 1..Len(cs) |-> cs[c].input]

\* C39 (Spec): text that arrives while a reply cycle is in flight never
\* changes that cycle's input: the input of a cycle is the trimmed buffer at
\* the moment of the drain, which empties the buffer; no later step changes
\* the input of a cycle in flight; a fragment handled while a cycle is in
\* flight is appended to the buffer; and the buffer keeps it until the next
\* drain (or until clearContext() drops it).
C39_InputFixedAtDrain ==
  /\ [][(last'.op = "processTranscript" /\ last'.outcome = "started") =>
          /\ cycles' = Append(cycles, [phase |-> "generate", input |-> Trim(transcriptBuffer)])
          /\ transcriptBuffer' = <<>>]_vars
  /\ [][/\ Len(cycles') = Len(cycles) => InputsOf(cycles') = InputsOf(cycles)
        /\ Len(cycles') > Len(cycles) =>
             SubSeq(InputsOf(cycles'), 1, Len(cycles)) = InputsOf(cycles)
        /\ Len(cycles') < Len(cycles) =>
             \E c \in 1..Len(cycles) : InputsOf(cycles') = RemoveAt(InputsOf(cycles), c)]_vars
  /\ [][(cycles # <<>> /\ last'.op = "handleTranscription" /\ ~last'.ignored) =>
          transcriptBuffer' = AppendFragment(transcriptBuffer, last'.text)]_vars
  /\ [][(last'.op \notin {"handleTranscription", "clearContext"}
           /\ ~(last'.op = "processTranscript" /\ last'.outcome = "started")) =>
          transcriptBuffer' = transcriptBuffer]_vars

\* a fragment arrived while the reply to an earlier utterance was being
\* generated: it is in the buffer and the cycle's input is the earlier text
C39_Witness ==
  /\ last.op = "handleTranscription"
  /\ ~last.ignored
  /\ last.text = Rep("b", 49)
  /\ Len(cycles) = 1
  /\ cycles[1].phase = "generate"
  /\ cycles[1].input = Rep("a", 33)
  /\ transcriptBuffer = <<Space>> \o Rep("b", 49)

====
